---- MODULE Spec2Model ----
(***************************************************************************)
(* Model of reslice_sc_400.py: the codepoint token parser (_to_int), the   *)
(* slice definition parser (parse_slices), range compaction and            *)
(* serialisation (compact_ranges, ranges_to_css) and the parallel          *)
(* dispatch / aggregation of main().                                       *)
(*                                                                         *)
(* Python strings are sequences of one-character strings.                  *)
(***************************************************************************)
EXTENDS Integers, Sequences, FiniteSets, TLC

VARIABLES
    \* --- _to_int applied to one token
    token, tokResult, rendered, reparsed,
    \* --- compact_ranges / ranges_to_css applied to one codepoint set
    codepoints, ranges, rangesCss, compactpc,
    \* --- parse_slices
    txt, lineNo, pslices, in_block, current, parseStatus, parsed,
    \* --- main
    slices, covered, jobs, mainpc, submitted, ustate, uresult, pending,
    done, skipped, css_rules, subsetCalls, css_file, failure, exitcode

toIntVars   == <<token, tokResult, rendered, reparsed>>
compactVars == <<codepoints, ranges, rangesCss, compactpc>>
parseVars   == <<txt, lineNo, pslices, in_block, current, parseStatus, parsed>>
mainVars    == <<slices, covered, jobs, mainpc, submitted, ustate, uresult,
                 pending, done, skipped, css_rules, subsetCalls, css_file,
                 failure, exitcode>>
vars        == <<toIntVars, compactVars, parseVars, mainVars>>

(***************************************************************************)
(* Character-level helpers (Python str methods used by the program).       *)
(***************************************************************************)
WhiteSpace == {" ", "\t"}

DecDigits == <<"0", "1", "2", "3", "4", "5", "6", "7", "8", "9">>
HexLower  == <<"a", "b", "c", "d", "e", "f">>
HexUpper  == <<"A", "B", "C", "D", "E", "F">>

Range(s) == {s[i] : i \in 1..Len(s)}

IndexIn(c, s) == CHOOSE i \in 1..Len(s) : s[i] = c

\* str.lower() on one character (only the letters a token prefix can hold
\* matter to the program: A-F, U and X)
LowerChar(c) ==
    IF c \in Range(HexUpper) THEN HexLower[IndexIn(c, HexUpper)]
    ELSE IF c = "U" THEN "u"
    ELSE IF c = "X" THEN "x"
    ELSE c

Lower(s) == [i \in 1..Len(s) |-> LowerChar(s[i])]

StartsWith(s, p) == Len(p) <= Len(s) /\ SubSeq(s, 1, Len(p)) = p

EndsWith(s, p) == Len(p) <= Len(s) /\ SubSeq(s, Len(s) - Len(p) + 1, Len(s)) = p

\* s[n:] of Python, n counted from 0
DropFirst(s, n) == IF n >= Len(s) THEN <<>> ELSE SubSeq(s, n + 1, Len(s))

RECURSIVE LStrip(_)
LStrip(s) ==
    IF s # <<>> /\ Head(s) \in WhiteSpace THEN LStrip(Tail(s)) ELSE s

RECURSIVE RStrip(_)
RStrip(s) ==
    IF s # <<>> /\ s[Len(s)] \in WhiteSpace
    THEN RStrip(SubSeq(s, 1, Len(s) - 1))
    ELSE s

\* str.strip()
Strip(s) == RStrip(LStrip(s))

(***************************************************************************)
(* int(text, base) of Python for base 10 and 16: surrounding whitespace,   *)
(* an optional sign, for base 16 an optional 0x/0X prefix, and digits      *)
(* separated by single underscores.  A result is [ok, val]; ok = FALSE is  *)
(* the ValueError.                                                          *)
(***************************************************************************)
Failure == [ok |-> FALSE, val |-> 0]

Success(n) == [ok |-> TRUE, val |-> n]

IsDigitOf(c, base) ==
    \/ c \in Range(DecDigits)
    \/ base = 16 /\ c \in (Range(HexLower) \cup Range(HexUpper))

DigitVal(c) ==
    IF c \in Range(DecDigits) THEN IndexIn(c, DecDigits) - 1
    ELSE IF c \in Range(HexLower) THEN 9 + IndexIn(c, HexLower)
    ELSE 9 + IndexIn(c, HexUpper)

RECURSIVE DigitsValue(_, _, _)
DigitsValue(s, base, acc) ==
    IF s = <<>> THEN acc
    ELSE IF Head(s) = "_" THEN DigitsValue(Tail(s), base, acc)
    ELSE DigitsValue(Tail(s), base, acc * base + DigitVal(Head(s)))

\* digits with single underscores between them (one may follow a 0x prefix)
WellFormedDigits(s, base, afterPrefix) ==
    /\ s # <<>>
    /\ \A i \in 1..Len(s) : s[i] = "_" \/ IsDigitOf(s[i], base)
    /\ s[Len(s)] # "_"
    /\ (s[1] = "_" => afterPrefix)
    /\ \A i \in 1..(Len(s) - 1) : ~(s[i] = "_" /\ s[i + 1] = "_")

PyIntDigits(digits, base, afterPrefix, negative) ==
    IF ~WellFormedDigits(digits, base, afterPrefix) THEN Failure
    ELSE IF negative THEN Success(0 - DigitsValue(digits, base, 0))
    ELSE Success(DigitsValue(digits, base, 0))

PyIntBody(body, base, negative) ==
    IF base = 16 /\ StartsWith(Lower(body), <<"0", "x">>)
    THEN PyIntDigits(DropFirst(body, 2), base, TRUE, negative)
    ELSE PyIntDigits(body, base, FALSE, negative)

PyIntStripped(s, base) ==
    IF s # <<>> /\ Head(s) \in {"+", "-"}
    THEN PyIntBody(Tail(s), base, Head(s) = "-")
    ELSE PyIntBody(s, base, FALSE)

PyInt(text, base) == PyIntStripped(Strip(text), base)

\* _dec_re / _hex_re .fullmatch
DecFullMatch(s) == s # <<>> /\ \A i \in 1..Len(s) : IsDigitOf(s[i], 10)

HexFullMatch(s) == s # <<>> /\ \A i \in 1..Len(s) : IsDigitOf(s[i], 16)

ToIntNoDecimalRule(s) ==
    IF s = <<>> THEN Failure
    ELSE IF StartsWith(Lower(s), <<"u", "+">>) THEN PyInt(DropFirst(s, 2), 16)
    ELSE IF StartsWith(Lower(s), <<"0", "x">>) THEN PyInt(DropFirst(s, 2), 16)
    ELSE IF HexFullMatch(s) THEN PyInt(s, 16)
    ELSE Failure

\* _to_int after s = token.strip(): U+ / 0x / decimal / bare hexadecimal, in
\* this order
ToIntStripped(s) ==
    IF s = <<>> THEN Failure
    ELSE IF StartsWith(Lower(s), <<"u", "+">>) THEN PyInt(DropFirst(s, 2), 16)
    ELSE IF StartsWith(Lower(s), <<"0", "x">>) THEN PyInt(DropFirst(s, 2), 16)
    ELSE IF DecFullMatch(s) THEN PyInt(s, 10)
    ELSE IF HexFullMatch(s) THEN PyInt(s, 16)
    ELSE Failure

_to_int(tok) == ToIntStripped(Strip(tok))

(***************************************************************************)
(* Specification SpecToInt: _to_int applied to one token.                  *)
(***************************************************************************)
MaxTokLen == 4

TokChars == {"0", "1", "a", "F", "x", "X", "u", "U", "+", "-", "_", " "}

\* the tokens of the documented examples
ExampleTokens ==
    { <<"2", "0", "0", "1", "3">>,
      <<"U", "+", "6", "5", "8", "7">>,
      <<"0", "x", "2", "1">>,
      <<"1", "2", "x", "3", "4">> }

BoundedTokens == UNION {[1..n -> TokChars] : n \in 0..MaxTokLen}

\* what a call left behind: state is "pending", "returned" or "raised"
NotCalled == [state |-> "pending", val |-> 0]

Outcome(r) == [state |-> IF r.ok THEN "returned" ELSE "raised", val |-> r.val]

IdleToInt ==
    /\ token = <<>> /\ tokResult = [state |-> "idle", val |-> 0]
    /\ rendered = <<>> /\ reparsed = [state |-> "idle", val |-> 0]

IdleCompact ==
    codepoints = {} /\ ranges = <<>> /\ rangesCss = <<>> /\ compactpc = "idle"

IdleParse ==
    /\ txt = <<>> /\ lineNo = 0 /\ pslices = <<>> /\ in_block = FALSE
    /\ current = {} /\ parseStatus = "idle" /\ parsed = <<>>

\* the stylesheet file: not written, or written with the rules in this order
NotWritten == [written |-> FALSE, rules |-> <<>>]

IdleMain ==
    /\ slices = <<>> /\ covered = {} /\ jobs = 0 /\ mainpc = "idle"
    /\ submitted = 0 /\ ustate = <<>> /\ uresult = <<>> /\ pending = <<>>
    /\ done = 0 /\ skipped = 0 /\ css_rules = <<>> /\ subsetCalls = {}
    /\ css_file = NotWritten /\ failure = 0 /\ exitcode = -1

InitToInt ==
    /\ token \in BoundedTokens \cup ExampleTokens
    /\ tokResult = NotCalled
    /\ rendered = <<>>
    /\ reparsed = NotCalled
    /\ IdleCompact /\ IdleParse /\ IdleMain

\* the call _to_int(token): returns an integer or raises ValueError
CallToInt ==
    /\ tokResult = NotCalled
    /\ tokResult' = Outcome(_to_int(token))
    /\ UNCHANGED <<token, rendered, reparsed, compactVars, parseVars, mainVars>>

NextToInt == CallToInt

SpecToInt == InitToInt /\ [][NextToInt]_vars

\* positional value of a digit string, from its last digit
RECURSIVE PosValue(_, _)
PosValue(s, base) ==
    IF s = <<>> THEN 0
    ELSE base * PosValue(SubSeq(s, 1, Len(s) - 1), base) + DigitVal(s[Len(s)])

AllDigitsOf(s, base) == s # <<>> /\ \A i \in 1..Len(s) : IsDigitOf(s[i], base)

\* C4: _to_int tries the forms in the order U+/u+ prefix (rest read as
\* hexadecimal), 0x/0X prefix (rest read as hexadecimal), all decimal digits
\* (decimal), all hexadecimal digits (hexadecimal); every other token, and a
\* token empty after trimming, raises.  "10" is 10, "1a" is 26, and the tokens
\* 20013, U+6587, 0x21 give 20013, 0x6587 and 0x21.
C4_ToIntPrecedence ==
    tokResult.state \in {"returned", "raised"} =>
        LET s    == Strip(token)
            rest == DropFirst(s, 2)
            uPre == Len(s) >= 2 /\ s[1] \in {"U", "u"} /\ s[2] = "+"
            xPre == Len(s) >= 2 /\ s[1] = "0" /\ s[2] \in {"x", "X"}
            dec  == AllDigitsOf(s, 10)
            hex  == AllDigitsOf(s, 16)
            Gives(n) == tokResult = [state |-> "returned", val |-> n]
        IN  /\ s = <<>> => tokResult.state = "raised"
            /\ (uPre \/ xPre) =>
                  /\ tokResult = Outcome(PyInt(rest, 16))
                  /\ AllDigitsOf(rest, 16) => Gives(PosValue(rest, 16))
                  /\ rest = <<>> => tokResult.state = "raised"
            /\ (~uPre /\ ~xPre /\ dec) => Gives(PosValue(s, 10))
            /\ (~uPre /\ ~xPre /\ ~dec /\ hex) => Gives(PosValue(s, 16))
            /\ (~uPre /\ ~xPre /\ ~dec /\ ~hex) => tokResult.state = "raised"
            /\ token = <<"1", "0">> => Gives(10)
            /\ token = <<"1", "a">> => Gives(26)
            /\ token = <<"2", "0", "0", "1", "3">> => Gives(20013)
            /\ token = <<"U", "+", "6", "5", "8", "7">> => Gives(25991)
            /\ token = <<"0", "x", "2", "1">> => Gives(33)
            /\ token = <<"1", "2", "x", "3", "4">> => tokResult.state = "raised"

\* a bare token of decimal digits was read as decimal although it is also a
\* well-formed hexadecimal number
C4_Witness ==
    /\ token = <<"1", "0">>
    /\ tokResult = [state |-> "returned", val |-> 10]

(***************************************************************************)
(* compact_ranges and ranges_to_css.                                       *)
(***************************************************************************)
Min(S) == CHOOSE x \in S : \A y \in S : x <= y

\* sorted(codepoints)
RECURSIVE Sorted(_)
Sorted(S) == IF S = {} THEN <<>> ELSE <<Min(S)>> \o Sorted(S \ {Min(S)})

\* the loop of compact_ranges over s[k..], with its locals out, start, prev
RECURSIVE CompactLoop(_, _, _, _, _)
CompactLoop(s, k, out, start, prev) ==
    IF k > Len(s) THEN Append(out, <<start, prev>>)
    ELSE IF s[k] = prev + 1 THEN CompactLoop(s, k + 1, out, start, s[k])
    ELSE CompactLoop(s, k + 1, Append(out, <<start, prev>>), s[k], s[k])

\* s = sorted(codepoints); start = prev = s[0]; the loop over s[1:]
CompactFrom(s) == CompactLoop(s, 2, <<>>, s[1], s[1])

CompactNoMerge(cps) == [k \in 1..Cardinality(cps) |-> <<Sorted(cps)[k], Sorted(cps)[k]>>]

compact_ranges(cps) ==
    IF cps = {} THEN <<>>
    ELSE CompactFrom(Sorted(cps))

HexDigitChars == DecDigits \o HexUpper

\* upper-case hexadecimal digits of n >= 0, no padding
RECURSIVE HexOf(_)
HexOf(n) ==
    IF n < 16 THEN <<HexDigitChars[n + 1]>>
    ELSE Append(HexOf(n \div 16), HexDigitChars[(n % 16) + 1])

\* decimal digits of n >= 0, no padding
RECURSIVE DecOf(_)
DecOf(n) ==
    IF n < 10 THEN <<DecDigits[n + 1]>>
    ELSE Append(DecOf(n \div 10), DecDigits[(n % 10) + 1])

RECURSIVE ZeroPad(_, _)
ZeroPad(s, width) == IF Len(s) >= width THEN s ELSE ZeroPad(<<"0">> \o s, width)

FormatDec04(a) == IF a < 0 THEN <<"-">> \o ZeroPad(DecOf(0 - a), 3) ELSE ZeroPad(DecOf(a), 4)

\* format(a, "04X"): at least 4 characters, a sign counted among them
FormatHex04(a) ==
    IF a < 0 THEN <<"-">> \o ZeroPad(HexOf(0 - a), 3) ELSE ZeroPad(HexOf(a), 4)

RangePart(r) ==
    IF r[1] = r[2] THEN <<"U", "+">> \o FormatHex04(r[1])
    ELSE <<"U", "+">> \o FormatHex04(r[1]) \o <<"-">> \o FormatHex04(r[2])

\* ", ".join(parts)
RECURSIVE JoinWith(_, _)
JoinWith(parts, sep) ==
    IF parts = <<>> THEN <<>>
    ELSE IF Len(parts) = 1 THEN parts[1]
    ELSE parts[1] \o sep \o JoinWith(Tail(parts), sep)

ranges_to_css(rs) == JoinWith([k \in 1..Len(rs) |-> RangePart(rs[k])], <<",", " ">>)

(***************************************************************************)
(* Specification SpecRoundTrip: a token is parsed, the codepoint is        *)
(* rendered the way ranges_to_css renders a singleton interval, and the    *)
(* rendering is parsed again.                                              *)
(***************************************************************************)
\* ranges_to_css([(cp, cp)])
RenderCodepoint ==
    /\ tokResult.state = "returned"
    /\ rendered = <<>>
    /\ rendered' = ranges_to_css(<< <<tokResult.val, tokResult.val>> >>)
    /\ UNCHANGED <<token, tokResult, reparsed, compactVars, parseVars, mainVars>>

\* _to_int on the rendering
ReparseRendered ==
    /\ rendered # <<>>
    /\ reparsed = NotCalled
    /\ reparsed' = Outcome(_to_int(rendered))
    /\ UNCHANGED <<token, tokResult, rendered, compactVars, parseVars, mainVars>>

NextRoundTrip == CallToInt \/ RenderCodepoint \/ ReparseRendered

SpecRoundTrip == InitToInt /\ [][NextRoundTrip]_vars

\* C11: for every token _to_int accepts, the codepoint rendered as U+XXXX
\* (upper-case hexadecimal, at least four digits) parses back to the same
\* codepoint: parse(render(parse(t))) = parse(t).
C11_RenderParseRoundTrip ==
    reparsed.state \in {"returned", "raised"} => reparsed = tokResult

\* the decimal token 10 was rendered as U+000A and read back as 10
C11_Witness ==
    /\ token = <<"1", "0">>
    /\ rendered = <<"U", "+", "0", "0", "0", "A">>
    /\ reparsed = [state |-> "returned", val |-> 10]

(***************************************************************************)
(* Specification SpecCompact: compact_ranges, then ranges_to_css, applied  *)
(* to one codepoint set.                                                   *)
(***************************************************************************)
MaxSmallCp == 6

CompactUniverse == (0..MaxSmallCp) \cup {19968, 19969, 1114111}

InitCompact ==
    /\ codepoints \in SUBSET CompactUniverse
    /\ ranges = <<>>
    /\ rangesCss = <<>>
    /\ compactpc = "start"
    /\ IdleToInt /\ IdleParse /\ IdleMain

CallCompactRanges ==
    /\ compactpc = "start"
    /\ ranges' = compact_ranges(codepoints)
    /\ compactpc' = "compacted"
    /\ UNCHANGED <<codepoints, rangesCss, toIntVars, parseVars, mainVars>>

CallRangesToCss ==
    /\ compactpc = "compacted"
    /\ rangesCss' = ranges_to_css(ranges)
    /\ compactpc' = "serialized"
    /\ UNCHANGED <<codepoints, ranges, toIntVars, parseVars, mainVars>>

NextCompact == CallCompactRanges \/ CallRangesToCss

SpecCompact == InitCompact /\ [][NextCompact]_vars

\* the codepoints an interval list denotes
RECURSIVE IntervalsUnion(_)
IntervalsUnion(rs) ==
    IF rs = <<>> THEN {} ELSE (rs[1][1]..rs[1][2]) \cup IntervalsUnion(Tail(rs))

\* C6: compact_ranges returns closed intervals (low <= high) in ascending
\* order whose codepoints together are exactly the input set, with a gap of
\* at least one codepoint between consecutive intervals (c > b + 1); the
\* empty set gives the empty list.
C6_CompactMinimal ==
    compactpc \in {"compacted", "serialized"} =>
        /\ \A k \in 1..Len(ranges) : ranges[k][1] <= ranges[k][2]
        /\ IntervalsUnion(ranges) = codepoints
        /\ \A k \in 1..(Len(ranges) - 1) : ranges[k + 1][1] > ranges[k][2] + 1
        /\ codepoints = {} => ranges = <<>>

\* a set with a run of consecutive codepoints and an isolated one was compacted
C6_Witness ==
    /\ compactpc = "compacted"
    /\ {0, 1, 2, 4} \subseteq codepoints
    /\ 3 \notin codepoints
    /\ Len(ranges) >= 2
    /\ ranges[1] = <<0, 2>>

(***************************************************************************)
(* parse_slices.  The text is the list of its lines (txt.splitlines()).    *)
(***************************************************************************)
EmDash == "(em dash)"
EnDash == "(en dash)"

\* a block-start line: subsets {
LineOpen ==
    <<"s", "u", "b", "s", "e", "t", "s", " ", "{">>

\* a closing brace: }
LineClose ==
    <<"}">>

\* a declaration holding one range: codepoints: 0x4E00-0x4E10
LineRange ==
    <<"c", "o", "d", "e", "p", "o", "i", "n", "t", "s", ":", " ", "0", "x",
      "4", "E", "0", "0", "-", "0", "x", "4", "E", "1", "0">>

\* a whole block written on one line: subsets { codepoints: 0x4E00-0x4E10 }
LineInline ==
    <<"s", "u", "b", "s", "e", "t", "s", " ", "{", " ", "c", "o", "d", "e",
      "p", "o", "i", "n", "t", "s", ":", " ", "0", "x", "4", "E", "0", "0",
      "-", "0", "x", "4", "E", "1", "0", " ", "}">>

\* a declaration mixing the token forms: codepoints: 20013, U+6587, 0x21
LineMixed ==
    <<"c", "o", "d", "e", "p", "o", "i", "n", "t", "s", ":", " ", "2", "0",
      "0", "1", "3", ",", " ", "U", "+", "6", "5", "8", "7", ",", " ", "0",
      "x", "2", "1">>

\* a declaration holding a malformed token: codepoints: 12x34
LineBad ==
    <<"c", "o", "d", "e", "p", "o", "i", "n", "t", "s", ":", " ", "1", "2",
      "x", "3", "4">>

\* an inverted range, a single codepoint and a comment:   codepoints: 3..1;7 # low
LineSmall ==
    <<" ", " ", "c", "o", "d", "e", "p", "o", "i", "n", "t", "s", ":", " ",
      "3", ".", ".", "1", ";", "7", " ", "#", " ", "l", "o", "w">>

\* a line that is blank once its comment is removed:  # only a comment
LineBlank ==
    <<" ", "#", " ", "o", "n", "l", "y", " ", "a", " ", "c", "o", "m", "m",
      "e", "n", "t">>

\* a declaration of the last Unicode codepoint and of the integer after it
LineHigh ==
    <<"c", "o", "d", "e", "p", "o", "i", "n", "t", "s", ":", " ",
      "1", "0", "F", "F", "F", "F", " ", "0", "x", "1", "1", "0", "0", "0", "0">>

\* raw.split('#', 1)[0]
RECURSIVE BeforeHash(_)
BeforeHash(raw) ==
    IF raw = <<>> \/ Head(raw) = "#" THEN <<>>
    ELSE <<Head(raw)>> \o BeforeHash(Tail(raw))

\* line.split(':', 1)[1]; the line holds a colon
RECURSIVE AfterColon(_)
AfterColon(line) == IF Head(line) = ":" THEN Tail(line) ELSE AfterColon(Tail(line))

\* .replace(em dash, '-').replace(en dash, '-')
ReplaceDashes(s) == [i \in 1..Len(s) |-> IF s[i] \in {EmDash, EnDash} THEN "-" ELSE s[i]]

Separators == WhiteSpace \cup {",", ";"}

\* re.split(r'[\s,;]+', rest) without the empty pieces the loop skips:
\* cur is the piece being read
RECURSIVE SplitTokens(_, _)
SplitTokens(rest, cur) ==
    IF rest = <<>> THEN (IF cur = <<>> THEN <<>> ELSE <<cur>>)
    ELSE IF Head(rest) \in Separators
         THEN (IF cur = <<>> THEN <<>> ELSE <<cur>>) \o SplitTokens(Tail(rest), <<>>)
         ELSE SplitTokens(Tail(rest), Append(cur, Head(rest)))

IsSepAt(tok, i) ==
    \/ tok[i] = "-"
    \/ i < Len(tok) /\ tok[i] = "." /\ tok[i + 1] = "."

\* '..' in tok or '-' in tok
IsRangeToken(tok) == \E i \in 1..Len(tok) : IsSepAt(tok, i)

SplitAt(tok, i) ==
    <<SubSeq(tok, 1, i - 1), DropFirst(tok, IF tok[i] = "-" THEN i ELSE i + 1)>>

\* re.split(r'\.\.|-', tok, maxsplit=1): split at the leftmost separator
SplitRange(tok) == SplitAt(tok, Min({j \in 1..Len(tok) : IsSepAt(tok, j)}))

RangeSetExclusive(lo, hi) == lo..(hi - 1)

\* range(lo, hi + 1)
RangeSet(lo, hi) == lo..hi

\* what one token does to the set current; ok = FALSE is the ValueError of
\* _to_int
Raised(cur) == [ok |-> FALSE, set |-> cur]

Added(cur, new) == [ok |-> TRUE, set |-> cur \cup new]

BoundsEffectNoSwap(a, b, cur) ==
    IF ~a.ok \/ ~b.ok THEN Raised(cur)
    ELSE Added(cur, RangeSet(a.val, b.val))

\* lo, hi = _to_int(a), _to_int(b); swap if inverted; current.update(range)
BoundsEffect(a, b, cur) ==
    IF ~a.ok \/ ~b.ok THEN Raised(cur)
    ELSE IF a.val > b.val THEN Added(cur, RangeSet(b.val, a.val))
    ELSE Added(cur, RangeSet(a.val, b.val))

RangeEffect(ab, cur) == BoundsEffect(_to_int(ab[1]), _to_int(ab[2]), cur)

SingleEffectSkipBad(v, cur) == IF ~v.ok THEN Added(cur, {}) ELSE Added(cur, {v.val})

\* current.add(_to_int(tok))
SingleEffect(v, cur) == IF ~v.ok THEN Raised(cur) ELSE Added(cur, {v.val})

\* one iteration of the token loop
TokenEffect(tok, cur) ==
    IF IsRangeToken(tok) THEN RangeEffect(SplitRange(tok), cur)
    ELSE SingleEffect(_to_int(tok), cur)

\* the token loop: stops at the first token that raises
RECURSIVE TokensEffect(_, _)
RECURSIVE TokensStep(_, _)
TokensStep(r, rest) == IF r.ok THEN TokensEffect(rest, r.set) ELSE r

TokensEffect(toks, cur) ==
    IF toks = <<>> THEN Added(cur, {})
    ELSE TokensStep(TokenEffect(Head(toks), cur), Tail(toks))

KwSubsets == <<"s", "u", "b", "s", "e", "t", "s">>

KwCodepoints == <<"c", "o", "d", "e", "p", "o", "i", "n", "t", "s">>

\* the locals slices, in_block and current after one line; raised = TRUE is
\* a ValueError leaving the function
Locals(sl, inb, cur) ==
    [raised |-> FALSE, slices |-> sl, in_block |-> inb, current |-> cur]

DeclEffect(r, sl, inb) ==
    [raised |-> ~r.ok, slices |-> sl, in_block |-> inb, current |-> r.set]

OutsideBlockNever(inb) == FALSE

\* `if not in_block: continue`
OutsideBlock(inb) == ~inb

\* the body of the loop over the lines once the comment is cut and the line
\* stripped
StrippedLineEffect(line, sl, inb, cur) ==
    IF line = <<>> THEN Locals(sl, inb, cur)
    ELSE IF StartsWith(line, KwSubsets)
    THEN IF EndsWith(line, <<"{">>)
         THEN IF inb /\ cur # {}
              THEN Locals(Append(sl, cur), TRUE, {})
              ELSE Locals(sl, TRUE, cur)
         ELSE Locals(sl, inb, cur)
    ELSE IF StartsWith(line, <<"}">>)
    THEN IF inb
         THEN Locals(IF cur # {} THEN Append(sl, cur) ELSE sl, FALSE, {})
         ELSE Locals(sl, inb, cur)
    ELSE IF OutsideBlock(inb) THEN Locals(sl, inb, cur)
    ELSE IF StartsWith(line, KwCodepoints)
    THEN IF ":" \notin Range(line)
         THEN DeclEffect(Raised(cur), sl, inb)
         ELSE DeclEffect(
                  TokensEffect(
                      SplitTokens(ReplaceDashes(Strip(AfterColon(line))), <<>>),
                      cur),
                  sl, inb)
    ELSE Locals(sl, inb, cur)

LineEffect(raw, sl, inb, cur) ==
    StrippedLineEffect(Strip(BeforeHash(raw)), sl, inb, cur)

\* [s for s in slices if s]
RECURSIVE NonEmptyOnly(_)
NonEmptyOnly(sl) ==
    IF sl = <<>> THEN <<>>
    ELSE IF Head(sl) = {} THEN NonEmptyOnly(Tail(sl))
    ELSE <<Head(sl)>> \o NonEmptyOnly(Tail(sl))

(***************************************************************************)
(* Specification SpecParse: parse_slices on a text of up to MaxLines lines *)
(* drawn from LinePool, one line of the loop per step.                     *)
(***************************************************************************)
MaxLines == 4

LinePool ==
    {LineOpen, LineClose, LineRange, LineInline, LineMixed, LineBad,
     LineSmall, LineBlank, LineHigh}

InitParse ==
    /\ txt \in UNION {[1..n -> LinePool] : n \in 0..MaxLines}
    /\ lineNo = 0
    /\ pslices = <<>>
    /\ in_block = FALSE
    /\ current = {}
    /\ parseStatus = "running"
    /\ parsed = <<>>
    /\ IdleToInt /\ IdleCompact /\ IdleMain

\* one iteration of `for raw in txt.splitlines()`: e is the effect of the
\* line; a ValueError leaves parse_slices and nothing is returned
ParseStep(e) ==
    /\ lineNo' = lineNo + 1
    /\ IF e.raised
       THEN /\ parseStatus' = "raised"
            /\ UNCHANGED <<pslices, in_block, current>>
       ELSE /\ parseStatus' = parseStatus
            /\ pslices' = e.slices
            /\ in_block' = e.in_block
            /\ current' = e.current
    /\ UNCHANGED <<txt, parsed, toIntVars, compactVars, mainVars>>

ParseLine ==
    /\ parseStatus = "running"
    /\ lineNo < Len(txt)
    /\ ParseStep(LineEffect(txt[lineNo + 1], pslices, in_block, current))

FinalFlushMissing(sl, inb, cur) == sl

\* `if in_block and current: slices.append(current)` after the loop
FinalFlush(sl, inb, cur) == IF inb /\ cur # {} THEN Append(sl, cur) ELSE sl

\* after the loop: the implicit close, the filter and the return
ParseReturn ==
    /\ parseStatus = "running"
    /\ lineNo = Len(txt)
    /\ pslices' = FinalFlush(pslices, in_block, current)
    /\ parsed' = NonEmptyOnly(pslices')
    /\ parseStatus' = "returned"
    /\ UNCHANGED <<txt, lineNo, in_block, current, toIntVars, compactVars, mainVars>>

NextParse == ParseLine \/ ParseReturn

SpecParse == InitParse /\ [][NextParse]_vars

\* the codepoints U+4E00..U+4E10
Cjk17 == 19968..19984

\* C5 as stated: the block written on one line, `subsets { codepoints:
\* 0x4E00-0x4E10 }`, parses to exactly one slice of the 17 codepoints
\* 0x4E00..0x4E10.
C5_OneLineBlockParses ==
    (txt = <<LineInline>> /\ parseStatus = "returned") =>
        (Len(parsed) = 1 /\ parsed[1] = Cjk17)

\* C5 amended: with the block start, the codepoints declaration and the
\* closing brace each on a line of its own the text parses to exactly one
\* slice of the 17 codepoints 0x4E00..0x4E10, which compacts to the single
\* interval (0x4E00, 0x4E10) and serialises as U+4E00-4E10; written on one
\* line the same text yields no slice.
C5_BlockRoundTrip ==
    parseStatus = "returned" =>
        /\ txt = <<LineOpen, LineRange, LineClose>> =>
              /\ parsed = <<Cjk17>>
              /\ Cardinality(parsed[1]) = 17
              /\ compact_ranges(parsed[1]) = << <<19968, 19984>> >>
              /\ ranges_to_css(compact_ranges(parsed[1]))
                     = <<"U", "+", "4", "E", "0", "0", "-", "4", "E", "1", "0">>
        /\ txt = <<LineInline>> => parsed = <<>>

\* the three-line block was parsed and returned as one slice
C5_Witness ==
    /\ txt = <<LineOpen, LineRange, LineClose>>
    /\ parseStatus = "returned"
    /\ Len(parsed) = 1

\* a token the codepoint parser rejects, alone or as a bound of a range
MalformedToken(tok) ==
    IF IsRangeToken(tok)
    THEN ~_to_int(SplitRange(tok)[1]).ok \/ ~_to_int(SplitRange(tok)[2]).ok
    ELSE ~_to_int(tok).ok

DeclTokens(line) == SplitTokens(ReplaceDashes(Strip(AfterColon(line))), <<>>)

\* a codepoints declaration holding a malformed token
MalformedDecl(raw) ==
    /\ StartsWith(Strip(BeforeHash(raw)), KwCodepoints)
    /\ ":" \in Range(Strip(BeforeHash(raw)))
    /\ \E k \in 1..Len(DeclTokens(Strip(BeforeHash(raw)))) :
           MalformedToken(DeclTokens(Strip(BeforeHash(raw)))[k])

\* C7: parsing is all-or-nothing: reading a codepoints declaration with a
\* malformed token inside an open block makes parse_slices raise, and a parse
\* that raised has returned no slices, whatever blocks it had flushed before.
C7_ParseAllOrNothing ==
    /\ [][(/\ parseStatus = "running"
           /\ lineNo < Len(txt)
           /\ in_block
           /\ MalformedDecl(txt[lineNo + 1]))
          => (parseStatus' = "raised" /\ parsed' = <<>>)]_vars
    /\ [](parseStatus = "raised" => parsed = <<>>)

\* the parse raised on `codepoints: 12x34` after an earlier block had been
\* completed and flushed
C7_Witness ==
    /\ parseStatus = "raised"
    /\ txt[lineNo] = LineBad
    /\ Len(pslices) >= 1
    /\ parsed = <<>>

\* the kinds of line that delimit blocks
IsOpenLine(raw) ==
    StartsWith(Strip(BeforeHash(raw)), KwSubsets) /\ EndsWith(Strip(BeforeHash(raw)), <<"{">>)

IsCloseLine(raw) ==
    ~StartsWith(Strip(BeforeHash(raw)), KwSubsets) /\ StartsWith(Strip(BeforeHash(raw)), <<"}">>)

IsDeclLine(raw) ==
    /\ ~StartsWith(Strip(BeforeHash(raw)), KwSubsets)
    /\ ~StartsWith(Strip(BeforeHash(raw)), <<"}">>)
    /\ StartsWith(Strip(BeforeHash(raw)), KwCodepoints)
    /\ ":" \in Range(Strip(BeforeHash(raw)))

\* the codepoints a declaration line names
DeclSet(raw) ==
    IF IsDeclLine(raw) THEN TokensEffect(DeclTokens(Strip(BeforeHash(raw))), {}).set
    ELSE {}

\* the block opened at line a runs up to the next block-start or closing
\* brace, or to the end of the text
BlockEnd(lines, a) ==
    Min({b \in (a + 1)..(Len(lines) + 1) :
            b = Len(lines) + 1 \/ IsOpenLine(lines[b]) \/ IsCloseLine(lines[b])})

BlockSet(lines, a) ==
    UNION {DeclSet(lines[n]) : n \in (a + 1)..(BlockEnd(lines, a) - 1)}

\* one set per block that names at least one codepoint, in source order
BlocksWithCodepoints(lines) ==
    [n \in 1..Cardinality({a \in 1..Len(lines) :
                              IsOpenLine(lines[a]) /\ BlockSet(lines, a) # {}}) |->
        BlockSet(lines,
                 Sorted({a \in 1..Len(lines) :
                            IsOpenLine(lines[a]) /\ BlockSet(lines, a) # {}})[n])]

\* C12: the slice list never holds an empty set, and the list returned holds
\* exactly one slice per block that accumulated a codepoint, in source order,
\* whether the block was ended by a closing brace, by the next block-start or
\* by the end of the text; a block without codepoints adds no slice.
C12_OneSlicePerNonEmptyBlock ==
    /\ \A k \in 1..Len(pslices) : pslices[k] # {}
    /\ parseStatus = "returned" =>
          /\ \A k \in 1..Len(parsed) : parsed[k] # {}
          /\ parsed = BlocksWithCodepoints(txt)

\* a block ended by the next block-start and one ended by the end of the text
\* were both returned
C12_Witness ==
    /\ parseStatus = "returned"
    /\ txt = <<LineOpen, LineSmall, LineOpen, LineRange>>
    /\ parsed = <<{1, 2, 3, 7}, Cjk17>>

\* C13: while no block is open, a line that is not a block-start line leaves
\* the open flag, the current set and the slice list as they are and raises
\* nothing, be it a closing brace or a codepoints declaration, even one with
\* a malformed token.
C13_LinesOutsideBlocksIgnored ==
    [][(/\ parseStatus = "running"
        /\ lineNo < Len(txt)
        /\ ~in_block
        /\ ~IsOpenLine(txt[lineNo + 1]))
       => (/\ parseStatus' = "running"
           /\ in_block' = in_block
           /\ current' = current
           /\ pslices' = pslices
           /\ current' = {})]_vars

\* a declaration with a malformed token and a closing brace were read outside
\* any block and the parse went on
C13_Witness ==
    /\ parseStatus = "running"
    /\ lineNo = 2
    /\ txt[1] = LineBad
    /\ txt[2] = LineClose
    /\ ~in_block
    /\ pslices = <<>>

(***************************************************************************)
(* Specification SpecRange: parse_slices on an open block holding one      *)
(* declaration of one range token, for every pair of bounds of RangeBounds *)
(* and both separators.                                                    *)
(***************************************************************************)
\* bound tokens with the codepoints they stand for
RangeBounds ==
    { [text |-> <<"1">>, value |-> 1],
      [text |-> <<"3">>, value |-> 3],
      [text |-> <<"1", "0">>, value |-> 10],
      [text |-> <<"a">>, value |-> 10],
      [text |-> <<"0", "x", "5">>, value |-> 5],
      [text |-> <<"0", "X", "0", "C">>, value |-> 12],
      [text |-> <<"U", "+", "0", "0", "0", "7">>, value |-> 7],
      [text |-> <<"u", "+", "3">>, value |-> 3] }

RangeSeparators == {<<".", ".">>, <<"-">>, <<EnDash>>}

RangeDecl(a, sep, b) == KwCodepoints \o <<":", " ">> \o a.text \o sep \o b.text

InitRange ==
    /\ \E a \in RangeBounds, b \in RangeBounds, sep \in RangeSeparators :
           txt = <<LineOpen, RangeDecl(a, sep, b)>>
    /\ lineNo = 0
    /\ pslices = <<>>
    /\ in_block = FALSE
    /\ current = {}
    /\ parseStatus = "running"
    /\ parsed = <<>>
    /\ IdleToInt /\ IdleCompact /\ IdleMain

SpecRange == InitRange /\ [][NextParse]_vars

\* C14: a range token a..b or a-b adds to the current block every codepoint
\* from min(a, b) to max(a, b) inclusive: inverted bounds give the set of the
\* ordered bounds, and equal bounds add exactly one codepoint.
C14_RangeClosedAndSwapped ==
    \A a \in RangeBounds, b \in RangeBounds, sep \in RangeSeparators :
        (txt = <<LineOpen, RangeDecl(a, sep, b)>> /\ lineNo = 2) =>
            /\ parseStatus # "raised"
            /\ current = {c \in 0..12 : /\ (a.value <= c \/ b.value <= c)
                                        /\ (c <= a.value \/ c <= b.value)}
            /\ a.value = b.value => current = {a.value}
            /\ parseStatus = "returned" => parsed = <<current>>

\* the inverted range 0X0C..u+3 was read as the ten codepoints 3..12
C14_Witness ==
    /\ txt = <<LineOpen,
               KwCodepoints \o <<":", " ", "0", "X", "0", "C", ".", ".", "u", "+", "3">> >>
    /\ lineNo = 2
    /\ current = 3..12

\* C15: every codepoint of every slice returned by parse_slices is an integer
\* in [0, 0x10FFFF].
C15_CodepointsInUnicodeRange ==
    parseStatus = "returned" =>
        \A k \in 1..Len(parsed) : \A c \in parsed[k] : 0 <= c /\ c <= 1114111

(***************************************************************************)
(* main: the per-slice unit of work, the thread pool and the aggregation.  *)
(* Unit k is the k-th future of futs; it is "none" until submitted, then   *)
(* "queued", "running" and "finished".                                     *)
(***************************************************************************)
\* format(i, "03d")
Format03d(i) == ZeroPad(DecOf(i), 3)

\* f"{family_file}-slice{i:03d}.woff2"; the family is one fixed piece
OutName(i) ==
    <<"{family_file}", "-", "s", "l", "i", "c", "e">> \o Format03d(i)
        \o <<".", "w", "o", "f", "f", "2">>

\* ur.replace("U+", "").replace(" ", "")
RECURSIVE UnicodesArg(_)
UnicodesArg(ur) ==
    IF ur = <<>> THEN <<>>
    ELSE IF StartsWith(ur, <<"U", "+">>) THEN UnicodesArg(DropFirst(ur, 2))
    ELSE IF Head(ur) = " " THEN UnicodesArg(Tail(ur))
    ELSE <<Head(ur)>> \o UnicodesArg(Tail(ur))

\* the subprocess run_subset starts: its output file and --unicodes argument
SubsetCall(i, ur) == [dst |-> OutName(i), unicodes |-> UnicodesArg(ur)]

IntersectNothingDropped(cps, cov) == cps

\* inter = cps & covered
Intersect(cps, cov) == cps \cap cov

IsEmptyNever(inter) == FALSE

\* `if not inter`
IsEmpty(inter) == inter = {}

\* ur = ranges_to_css(compact_ranges(inter))
UnicodeRange(inter) == ranges_to_css(compact_ranges(inter))

\* the @font-face rule: the parts that vary with the slice
FontFace(i, ur) == [outname |-> OutName(i), unicode_range |-> ur]

NoCss == [outname |-> <<>>, unicode_range |-> <<>>]

NoErr == [cmd |-> [dst |-> <<>>, unicodes |-> <<>>], returncode |-> 0]

\* what a future holds: nothing yet, (i, None), (i, css) or the RuntimeError
NoResult == [kind |-> "none", i |-> 0, css |-> NoCss, err |-> NoErr]

Skip(i) == [kind |-> "skip", i |-> i, css |-> NoCss, err |-> NoErr]

Css(i, ur) == [kind |-> "css", i |-> i, css |-> FontFace(i, ur), err |-> NoErr]

SubsetErrorNoCmd(call, rc) ==
    [kind |-> "raised", i |-> 0, css |-> NoCss,
     err |-> [cmd |-> NoErr.cmd, returncode |-> rc]]

\* RuntimeError(f"subset failed: {e}; cmd={' '.join(cmd)}") from e: the message
\* holds the CalledProcessError, which names the exit status, and the command
\* line, which names the output file and the --unicodes argument
SubsetError(call, rc) ==
    [kind |-> "raised", i |-> 0, css |-> NoCss,
     err |-> [cmd |-> call, returncode |-> rc]]

\* the non-zero exit status of the failed subprocess; nothing reads its value
ExitStatuses == {1}

OrdinalZeroBased(idx) == idx

\* ex.submit(work, idx+1, cps)
Ordinal(idx) == idx + 1

total == Len(slices)

WorkersUnbounded(j) == IF j > 1 THEN j ELSE 2

\* max_workers=max(1, args.jobs)
Workers(j) == IF j > 1 THEN j ELSE 1

Units(st) == {k \in 1..Len(ustate) : ustate[k] = st}

\* sys.exit(2): no slice was parsed
ExitNoSlices == 2

\* the interpreter's exit status when the RuntimeError leaves main uncaught
ExitUncaught == 1

NoSlicesNever(sl) == FALSE

\* `if not slices`
NoSlices(sl) == sl = <<>>

\* css_rules.sort(key=lambda x: x[0]): insertion into the sorted prefix,
\* equal keys keep their order
RECURSIVE InsertByOrdinal(_, _)
InsertByOrdinal(sorted, r) ==
    IF sorted = <<>> THEN <<r>>
    ELSE IF r.i < Head(sorted).i THEN <<r>> \o sorted
    ELSE <<Head(sorted)>> \o InsertByOrdinal(Tail(sorted), r)

RECURSIVE SortFrom(_, _)
SortFrom(rules, acc) ==
    IF rules = <<>> THEN acc
    ELSE SortFrom(Tail(rules), InsertByOrdinal(acc, Head(rules)))

SortByOrdinalMissing(rules) == rules

SortByOrdinal(rules) == SortFrom(rules, <<>>)

\* the orders in which as_completed may yield the futures already finished
\* when it starts (it iterates over a set of them)
Orders(S) ==
    {p \in [1..Cardinality(S) -> S] : \A a, b \in 1..Cardinality(S) : p[a] = p[b] => a = b}

(***************************************************************************)
(* Specification Spec: main from the parsed slices on.                     *)
(***************************************************************************)
MaxSlices == 2

\* the slices parse_slices can return: non-empty codepoint sets
SlicePool == {{65, 66}, {66, 19968}, {128512}}

CoverUniverse == {65, 66, 19968, 128512}

JobsChoices == {0, 1, 2, 8}

Init ==
    /\ slices \in UNION {[1..n -> SlicePool] : n \in 0..MaxSlices}
    /\ covered \in SUBSET CoverUniverse
    /\ jobs \in JobsChoices
    /\ mainpc = "parsed"
    /\ submitted = 0
    /\ ustate = [k \in 1..Len(slices) |-> "none"]
    /\ uresult = [k \in 1..Len(slices) |-> NoResult]
    /\ pending = <<>>
    /\ done = 0
    /\ skipped = 0
    /\ css_rules = <<>>
    /\ subsetCalls = {}
    /\ css_file = NotWritten
    /\ failure = 0
    /\ exitcode = -1
    /\ IdleToInt /\ IdleCompact /\ IdleParse

inputs == <<slices, covered, jobs>>

\* lines 187-197: exit 2 when nothing was parsed, otherwise go on
CheckSlices ==
    /\ mainpc = "parsed"
    /\ IF NoSlices(slices)
       THEN mainpc' = "exit" /\ exitcode' = ExitNoSlices
       ELSE mainpc' = "submit" /\ exitcode' = exitcode
    /\ UNCHANGED <<inputs, submitted, ustate, uresult, pending, done, skipped,
                   css_rules, subsetCalls, css_file, failure,
                   toIntVars, compactVars, parseVars>>

\* one ex.submit of the list comprehension
Submit ==
    /\ mainpc = "submit"
    /\ submitted < total
    /\ submitted' = submitted + 1
    /\ ustate' = [ustate EXCEPT ![submitted + 1] = "queued"]
    /\ UNCHANGED <<inputs, mainpc, uresult, pending, done, skipped, css_rules,
                   subsetCalls, css_file, failure, exitcode,
                   toIntVars, compactVars, parseVars>>

\* done = 0 and the start of as_completed(futs): the futures finished by now
\* are yielded first, in any order
BeginAsCompleted ==
    /\ mainpc = "submit"
    /\ submitted = total
    /\ mainpc' = "collect"
    /\ pending' \in Orders(Units("finished"))
    /\ UNCHANGED <<inputs, submitted, ustate, uresult, done, skipped, css_rules,
                   subsetCalls, css_file, failure, exitcode,
                   toIntVars, compactVars, parseVars>>

\* a worker thread takes the oldest queued work item and runs work(i, cps) up
\* to the start of the subprocess (none for an empty intersection)
StartUnitOf(k, i, inter) ==
    /\ ustate' = [ustate EXCEPT ![k] = "running"]
    /\ subsetCalls' = IF IsEmpty(inter) THEN subsetCalls
                      ELSE subsetCalls \cup {SubsetCall(i, UnicodeRange(inter))}

\* unit k is the oldest work item of the queue and a worker thread is idle
CanStart(k) ==
    /\ ustate[k] = "queued"
    /\ \A q \in Units("queued") : k <= q
    /\ Cardinality(Units("running")) < Workers(jobs)

StartUnit(k) ==
    /\ CanStart(k)
    /\ StartUnitOf(k, Ordinal(k - 1), Intersect(slices[k], covered))
    /\ UNCHANGED <<inputs, mainpc, submitted, uresult, pending, done, skipped,
                   css_rules, css_file, failure, exitcode,
                   toIntVars, compactVars, parseVars>>

\* the future of unit k gets its result r; as_completed, once started, yields
\* futures in the order they finish
Finish(k, r) ==
    /\ ustate' = [ustate EXCEPT ![k] = "finished"]
    /\ uresult' = [uresult EXCEPT ![k] = r]
    /\ pending' = IF mainpc = "collect" THEN Append(pending, k) ELSE pending
    /\ UNCHANGED <<inputs, mainpc, submitted, done, skipped, css_rules,
                   subsetCalls, css_file, failure, exitcode,
                   toIntVars, compactVars, parseVars>>

\* work returns (i, None): empty intersection
FinishSkip(k) ==
    /\ ustate[k] = "running"
    /\ IsEmpty(Intersect(slices[k], covered))
    /\ Finish(k, Skip(Ordinal(k - 1)))

\* the subprocess succeeded: work returns (i, css)
SubsetSucceeds(k) ==
    /\ ustate[k] = "running"
    /\ ~IsEmpty(Intersect(slices[k], covered))
    /\ Finish(k, Css(Ordinal(k - 1), UnicodeRange(Intersect(slices[k], covered))))

\* the subprocess failed: run_subset raises RuntimeError out of work
SubsetFails(k) ==
    /\ ustate[k] = "running"
    /\ ~IsEmpty(Intersect(slices[k], covered))
    /\ \E rc \in ExitStatuses :
           Finish(k, SubsetError(SubsetCall(Ordinal(k - 1),
                                            UnicodeRange(Intersect(slices[k], covered))),
                                 rc))

\* one iteration of `for fu in as_completed(futs)`: fu.result() returns or
\* re-raises the unit's error, which leaves the loop and the with block
ReraisesNever(r) == FALSE

\* fu.result() raises the exception the call of work ended with
Reraises(r) == r.kind = "raised"

CountSkippedNever(r, n) == n

\* `if css is None: skipped += 1`
CountSkipped(r, n) == IF r.kind = "skip" THEN n + 1 ELSE n

CollectResult(k, r) ==
    IF Reraises(r)
    THEN /\ mainpc' = "unwinding"
         /\ failure' = k
         /\ UNCHANGED <<done, skipped, css_rules>>
    ELSE /\ done' = done + 1
         /\ skipped' = CountSkipped(r, skipped)
         /\ css_rules' = IF r.kind = "skip" THEN css_rules
                         ELSE Append(css_rules, [i |-> r.i, css |-> r.css])
         /\ UNCHANGED <<mainpc, failure>>

\* pending lists the futures in the order as_completed yields them; the
\* first `done` of them have been taken
Collect ==
    /\ mainpc = "collect"
    /\ done < Len(pending)
    /\ CollectResult(pending[done + 1], uresult[pending[done + 1]])
    /\ UNCHANGED <<inputs, submitted, ustate, uresult, pending, subsetCalls,
                   css_file, exitcode, toIntVars, compactVars, parseVars>>

ShutdownNoWait == TRUE

\* ThreadPoolExecutor.__exit__: shutdown(wait=True) returns when every work
\* item, queued ones included, has run
ShutdownDone == \A k \in 1..Len(ustate) : ustate[k] = "finished"

\* the error leaves the with block once the pool has shut down, and then
\* main: the interpreter exits with status 1
ExitOnError ==
    /\ mainpc = "unwinding"
    /\ ShutdownDone
    /\ mainpc' = "exit"
    /\ exitcode' = ExitUncaught
    /\ UNCHANGED <<inputs, submitted, ustate, uresult, pending, done, skipped,
                   css_rules, subsetCalls, css_file, failure,
                   toIntVars, compactVars, parseVars>>

AsCompletedExhaustedEarly == TRUE

\* the for loop ends when as_completed has yielded every future of futs and
\* each result was taken
AsCompletedExhausted == done = total

\* as_completed is exhausted; lines 232-241: sort, join, write, return
Assemble ==
    /\ mainpc = "collect"
    /\ AsCompletedExhausted
    /\ ShutdownDone
    /\ css_rules' = SortByOrdinal(css_rules)
    /\ css_file' = [written |-> TRUE,
                    rules |-> [n \in 1..Len(css_rules') |-> css_rules'[n].css]]
    /\ mainpc' = "exit"
    /\ exitcode' = 0
    /\ UNCHANGED <<inputs, submitted, ustate, uresult, pending, done, skipped,
                   subsetCalls, failure, toIntVars, compactVars, parseVars>>

Next ==
    \/ CheckSlices
    \/ Submit
    \/ BeginAsCompleted
    \/ \E k \in 1..Len(ustate) : StartUnit(k)
    \/ \E k \in 1..Len(ustate) : FinishSkip(k)
    \/ \E k \in 1..Len(ustate) : SubsetSucceeds(k)
    \/ \E k \in 1..Len(ustate) : SubsetFails(k)
    \/ Collect
    \/ ExitOnError
    \/ Assemble

Spec == Init /\ [][Next]_vars

\* a step of some worker thread of the pool, as the units' states show it:
\* the thread takes a work item (StartUnit), or its work(i, cps) call returns
\* or raises (FinishSkip, SubsetSucceeds, SubsetFails)
WorkerStep ==
    \E k \in 1..Len(ustate) :
        \/ CanStart(k) /\ ustate' = [ustate EXCEPT ![k] = "running"]
        \/ ustate[k] = "running" /\ ustate' = [ustate EXCEPT ![k] = "finished"]

\* the pool's threads are scheduled by the operating system and
\* subprocess.run returns: a worker that can take a step does not wait forever
FairSpec == Spec /\ WF_ustate(WorkerStep)

(***************************************************************************)
(* Properties of main.                                                     *)
(***************************************************************************)
\* the ordinals (1-based source positions) of the slices the font covers
CoveredOrdinals == {i \in 1..Len(slices) : slices[i] \cap covered # {}}

\* the codepoints a unicode-range string denotes: items separated by commas,
\* each U+X or U+X-Y in hexadecimal
RECURSIVE SplitOn(_, _, _)
SplitOn(str, seps, cur) ==
    IF str = <<>> THEN (IF cur = <<>> THEN <<>> ELSE <<cur>>)
    ELSE IF Head(str) \in seps
         THEN (IF cur = <<>> THEN <<>> ELSE <<cur>>) \o SplitOn(Tail(str), seps, <<>>)
         ELSE SplitOn(Tail(str), seps, Append(cur, Head(str)))

HexSpan(parts) ==
    IF Len(parts) = 1 THEN {PosValue(parts[1], 16)}
    ELSE PosValue(parts[1], 16)..PosValue(parts[2], 16)

CssRangeSet(ur) ==
    UNION { HexSpan(SplitOn(DropFirst(Strip(item), 2), {"-"}, <<>>)) :
            item \in Range(SplitOn(ur, {","}, <<>>)) }

\* the codepoints a --unicodes argument denotes to the subsetter: hexadecimal
\* items X or X-Y separated by commas
UnicodesSet(arg) ==
    UNION { HexSpan(SplitOn(item, {"-"}, <<>>)) :
            item \in Range(SplitOn(arg, {",", " "}, <<>>)) }

\* the manifest the inputs determine: one rule per covered slice, in source
\* order, whatever the worker count and the completion order
ManifestOf(sl, cov) ==
    LET emitted == Sorted({i \in 1..Len(sl) : sl[i] \cap cov # {}})
    IN  [n \in 1..Len(emitted) |->
            [outname |-> OutName(emitted[n]),
             unicode_range |-> ranges_to_css(compact_ranges(sl[emitted[n]] \cap cov))]]

\* C1: whatever the worker count and the order in which the units complete,
\* the written manifest lists the fragments in strictly ascending ordinal
\* order and is the one manifest the slices and the coverage determine (so
\* runs with 1 and with 8 workers on the same input write the same manifest).
C1_ManifestOrdered ==
    css_file.written =>
        /\ \A n \in 1..(Len(css_rules) - 1) : css_rules[n].i < css_rules[n + 1].i
        /\ css_file.rules = [n \in 1..Len(css_rules) |-> css_rules[n].css]
        /\ css_file.rules = ManifestOf(slices, covered)

\* with 8 workers two fragments were yielded in the order 2, 1 and written
C1_Witness ==
    /\ css_file.written
    /\ jobs = 8
    /\ pending = <<2, 1>>
    /\ Len(css_file.rules) = 2

\* C2: a failing unit does not stop its siblings: when the run has ended after
\* a failure, every dispatched unit, running or still queued when the failure
\* happened, has run to completion, and the exit status is non-zero.
C2_FailureWaitsForSiblings ==
    (mainpc = "exit" /\ failure # 0) =>
        /\ \A k \in 1..Len(slices) : ustate[k] = "finished" /\ uresult[k].kind # "none"
        /\ exitcode # 0

\* with one worker unit 1 failed while unit 2 was still queued; unit 2 then
\* ran and produced its fragment before the run ended
C2_Witness ==
    /\ mainpc = "exit"
    /\ jobs = 1
    /\ failure = 1
    /\ Len(slices) = 2
    /\ uresult[2].kind = "css"

\* C3: the exit status is 0 exactly when at least one slice was parsed and no
\* unit failed; it is non-zero when no slice was parsed; and when a unit
\* failed it is non-zero and differs from the status for no slices.
C3_ExitCodes ==
    mainpc = "exit" =>
        /\ exitcode = 0 <=>
              /\ Len(slices) >= 1
              /\ \A k \in 1..Len(slices) : uresult[k].kind \in {"skip", "css"}
        /\ Len(slices) = 0 => exitcode = ExitNoSlices /\ exitcode # 0
        /\ (\E k \in 1..Len(slices) : uresult[k].kind = "raised") =>
              exitcode # 0 /\ exitcode # ExitNoSlices

\* a run ended after one unit failed and another produced a fragment
C3_Witness ==
    /\ mainpc = "exit"
    /\ exitcode = 1
    /\ \E k \in 1..Len(slices) : uresult[k].kind = "raised"
    /\ \E k \in 1..Len(slices) : uresult[k].kind = "css"

\* C8: a slice that shares no codepoint with the coverage is a no-op: no
\* subprocess is started for it, it gets no fragment and it is no error; it is
\* counted as skipped.  With an empty coverage every slice is skipped and the
\* final skipped count is the number of slices.
C8_EmptyIntersectionSkipped ==
    /\ \A k \in 1..Len(slices) :
          slices[k] \cap covered = {} =>
              /\ uresult[k].kind \in {"none", "skip"}
              /\ \A c \in subsetCalls : c.dst # OutName(k)
              /\ \A n \in 1..Len(css_rules) : css_rules[n].i # k
    /\ (mainpc = "exit" /\ exitcode = 0) =>
          skipped = Len(slices) - Cardinality(CoveredOrdinals)
    /\ (mainpc = "exit" /\ covered = {} /\ Len(slices) >= 1) =>
          /\ exitcode = 0
          /\ skipped = Len(slices)
          /\ subsetCalls = {}
          /\ css_file.rules = <<>>
          /\ \A k \in 1..Len(slices) : uresult[k].kind = "skip"

\* a run over two slices and an empty coverage ended with both skipped
C8_Witness ==
    /\ mainpc = "exit"
    /\ covered = {}
    /\ Len(slices) = 2
    /\ skipped = 2

\* C9: the ordinal of a fragment, and the one in its artifact name
\* {family}-slice{ordinal:03d}, is the 1-based position of its slice in the
\* parsed list; skipped slices keep their ordinal.  With two slices, the
\* first absent from the coverage and the second covered, one fragment is
\* emitted, one slice is skipped and the fragment's ordinal is 2.
C9_OrdinalIsSourcePosition ==
    /\ \A n \in 1..Len(css_rules) :
          /\ css_rules[n].i \in CoveredOrdinals
          /\ Len(css_rules[n].css.outname) = 16
          /\ SubSeq(css_rules[n].css.outname, 1, 7)
                 = <<"{family_file}", "-", "s", "l", "i", "c", "e">>
          /\ PosValue(SubSeq(css_rules[n].css.outname, 8, 10), 10) = css_rules[n].i
          /\ CssRangeSet(css_rules[n].css.unicode_range)
                 = slices[css_rules[n].i] \cap covered
    /\ (/\ mainpc = "exit" /\ exitcode = 0
        /\ Len(slices) = 2
        /\ slices[1] \cap covered = {}
        /\ slices[2] \subseteq covered) =>
          /\ Len(css_file.rules) = 1
          /\ skipped = 1
          /\ css_rules[1].i = 2
          /\ SubSeq(css_file.rules[1].outname, 8, 10) = <<"0", "0", "2">>

\* the run over an uncovered first slice and a covered second one ended
C9_Witness ==
    /\ mainpc = "exit"
    /\ exitcode = 0
    /\ Len(slices) = 2
    /\ slices[1] \cap covered = {}
    /\ slices[2] \subseteq covered
    /\ Len(css_rules) = 1

\* C10: the unicode-range of every fragment denotes the same codepoints as the
\* range handed to the subsetting operation for that slice, and these are
\* exactly the slice's codepoints that the font covers; no subprocess is asked
\* for anything else.
C10_RangeMatchesSubset ==
    /\ \A n \in 1..Len(css_rules) :
          /\ CssRangeSet(css_rules[n].css.unicode_range)
                 = slices[css_rules[n].i] \cap covered
          /\ \E c \in subsetCalls :
                /\ c.dst = css_rules[n].css.outname
                /\ UnicodesSet(c.unicodes) = CssRangeSet(css_rules[n].css.unicode_range)
    /\ \A c \in subsetCalls :
          \E k \in 1..Len(slices) :
              /\ c.dst = OutName(k)
              /\ UnicodesSet(c.unicodes) = slices[k] \cap covered

\* a fragment was collected for a slice the font covers only in part
C10_Witness ==
    \E n \in 1..Len(css_rules) :
        /\ slices[css_rules[n].i] \cap covered # slices[css_rules[n].i]
        /\ Cardinality(slices[css_rules[n].i] \cap covered) >= 1
        /\ \E c \in subsetCalls : c.dst = css_rules[n].css.outname

Max(a, b) == IF a >= b THEN a ELSE b

\* C16: at every moment at most max(1, jobs) units are executing, hence at
\* most that many subsetting subprocesses are in flight; the others wait in the
\* queue, and every queued unit is eventually started.
C16_BoundedWorkersNoStarvation ==
    /\ [](Cardinality(Units("running")) <= Max(1, jobs))
    /\ \A k \in 1..(MaxSlices + 1) :
          (k <= Len(ustate) /\ ustate[k] = "queued")
              ~> (k <= Len(ustate) /\ ustate[k] = "running")

\* the only worker is busy with the first unit while the second waits
C16_Witness ==
    /\ jobs \in {0, 1}
    /\ Len(ustate) >= 2
    /\ ustate[1] = "running"
    /\ ustate[2] = "queued"

\* C17: the manifest is assembled and the stylesheet written only when every
\* dispatched unit has completed and its result has been collected: the number
\* of collected results equals the number of slices.
C17_AssembleAfterAllCollected ==
    /\ [][css_file'.written /\ ~css_file.written =>
              /\ \A k \in 1..Len(slices) : ustate[k] = "finished"
              /\ done = Len(slices)
              /\ Len(pending) = Len(slices)
              /\ mainpc = "collect"]_vars
    /\ [](css_file.written =>
              /\ \A k \in 1..Len(slices) : ustate[k] = "finished"
              /\ done = Len(slices)
              /\ skipped + Len(css_rules) = Len(slices))

\* the stylesheet of a two-slice run was written after one fragment and one
\* skipped result had been collected
C17_Witness ==
    /\ css_file.written
    /\ Len(slices) = 2
    /\ done = 2
    /\ skipped = 1
    /\ Len(css_file.rules) = 1

\* the slice whose output file the command line of an error names
OrdinalsNamedBy(e) == {j \in 1..Len(slices) : OutName(j) = e.cmd.dst}

C19_NoManifestAfterFailure ==
    /\ css_file.written =>
          /\ \A k \in 1..Len(slices) : uresult[k].kind \in {"skip", "css"}
          /\ failure = 0
          /\ Len(css_file.rules) = Cardinality(CoveredOrdinals)
    /\ (\E k \in 1..Len(slices) : uresult[k].kind = "raised") => css_file = NotWritten
    /\ mainpc = "unwinding" \/ failure # 0 => css_file = NotWritten

\* the run ended without a stylesheet although the fragment of the first
\* slice had been collected before the error of the second
C19_Witness ==
    /\ mainpc = "exit"
    /\ failure = 2
    /\ Len(css_rules) = 1
    /\ css_rules[1].i = 1
    /\ css_file = NotWritten

\* C20: during aggregation the completed counter only grows, by one per
\* collected result, and equals skipped + the number of collected fragments;
\* when aggregation ends without failure, fragments + skipped is the number
\* of parsed slices and no ordinal occurs twice among the fragments.
C20_CompletedCounter ==
    /\ [][\/ done' = done /\ skipped' = skipped /\ Len(css_rules') = Len(css_rules)
          \/ /\ done' = done + 1
             /\ skipped' + Len(css_rules') = skipped + Len(css_rules) + 1
             /\ skipped' >= skipped
             /\ Len(css_rules') >= Len(css_rules)]_vars
    /\ [](/\ done = skipped + Len(css_rules)
          /\ done <= Len(pending)
          /\ \A a, b \in 1..Len(css_rules) : css_rules[a].i = css_rules[b].i => a = b)
    /\ [](mainpc = "exit" /\ exitcode = 0 =>
              Len(css_rules) + skipped = Len(slices))

\* two fragments with different ordinals were collected and the run ended well
C20_Witness ==
    /\ mainpc = "exit"
    /\ exitcode = 0
    /\ done = 2
    /\ skipped = 0
    /\ Len(css_rules) = 2
    /\ css_rules[1].i # css_rules[2].i

====
